---- MODULE Spec2Model ----
(***************************************************************************)
(* Story-4D backend: the completion gateway and its six stage handlers, in *)
(* the two implementations of the repository:                              *)
(*   app.py      Flask handlers over call_gemini (three-model fallback)    *)
(*   internal.py FastAPI handlers over call_internal_gpt (one model)       *)
(* One request is followed from its arrival to its HTTP response.  Text    *)
(* (completion payloads) is a sequence of tokens; JSON values are records. *)
(* The messages of the source are written here without their accents.      *)
(***************************************************************************)
EXTENDS Integers, Sequences, FiniteSets, TLC

(***************************************************************************)
(* Bounds of the input universe.                                           *)
(***************************************************************************)
MaxStrLen == 1
MaxListLen == 2

(***************************************************************************)
(* JSON values.  A dict keeps its keys in insertion order, as Python does. *)
(***************************************************************************)
Null == [t |-> "null"]
Num(n) == [t |-> "num", n |-> n]
Str(s) == [t |-> "str", s |-> s]
List(xs) == [t |-> "list", items |-> xs]
Dict(ks, vs) == [t |-> "dict", keys |-> ks, vals |-> vs]

IsDict(v) == v.t = "dict"
IsList(v) == v.t = "list"
IsStr(v) == v.t = "str"

IndexOf(ks, k) ==
    IF \E i \in 1..Len(ks) : ks[i] = k
    THEN CHOOSE i \in 1..Len(ks) : ks[i] = k
    ELSE 0

HasKey(d, k) == IndexOf(d.keys, k) # 0
GetItem(d, k) == d.vals[IndexOf(d.keys, k)]

\* d[k] = v on a Python dict: a repeated key keeps its place and takes the
\* new value.
DictSet(d, k, v) ==
    IF HasKey(d, k)
    THEN Dict(d.keys, [d.vals EXCEPT ![IndexOf(d.keys, k)] = v])
    ELSE Dict(Append(d.keys, k), Append(d.vals, v))

\* Python truthiness of a parsed JSON value.
Truthy(v) ==
    CASE v.t = "null" -> FALSE
      [] v.t = "num"  -> v.n # 0
      [] v.t = "str"  -> v.s # <<>>
      [] v.t = "list" -> v.items # <<>>
      [] v.t = "dict" -> v.keys # <<>>

(***************************************************************************)
(* Text.  Tokens: the JSON punctuation, the double quote Q, null, 0, 1,    *)
(* whitespace WS, the three-backtick fence FENCE, the word json, and other *)
(* words, which occur as string content or as prose.                       *)
(***************************************************************************)
Q == "QUOTE"
WS == " "
FENCE == "FENCE"

RECURSIVE SeqsUpTo(_, _)
SeqsUpTo(S, n) ==
    IF n = 0 THEN {<<>>}
    ELSE LET shorter == SeqsUpTo(S, n - 1)
         IN shorter \cup {Append(s, x) : s \in shorter, x \in S}

\* json.dumps with its default separators ", " and ": ".
RECURSIVE json_dumps(_)
RECURSIVE DumpItems(_)
RECURSIVE DumpMembers(_, _)
DumpItems(xs) ==
    IF xs = <<>> THEN <<>>
    ELSE json_dumps(Head(xs))
         \o (IF Len(xs) > 1 THEN <<",", WS>> ELSE <<>>)
         \o DumpItems(Tail(xs))
DumpMembers(ks, vs) ==
    IF ks = <<>> THEN <<>>
    ELSE <<Q, Head(ks), Q, ":", WS>> \o json_dumps(Head(vs))
         \o (IF Len(ks) > 1 THEN <<",", WS>> ELSE <<>>)
         \o DumpMembers(Tail(ks), Tail(vs))
json_dumps(v) ==
    CASE v.t = "null" -> <<"null">>
      [] v.t = "num"  -> <<IF v.n = 0 THEN "0" ELSE "1">>
      [] v.t = "str"  -> <<Q>> \o v.s \o <<Q>>
      [] v.t = "list" -> <<"[">> \o DumpItems(v.items) \o <<"]">>
      [] v.t = "dict" -> <<"{">> \o DumpMembers(v.keys, v.vals) \o <<"}">>

(***************************************************************************)
(* json.loads: a recursive-descent parse of the whole text.  A failure     *)
(* carries the JSONDecodeError message.                                    *)
(***************************************************************************)
Ok(v, i) == [ok |-> TRUE, val |-> v, next |-> i]
Fail(m) == [ok |-> FALSE, msg |-> m]

RECURSIVE SkipWs(_, _)
SkipWs(t, i) == IF i <= Len(t) /\ t[i] = WS THEN SkipWs(t, i + 1) ELSE i

\* t[i] is the opening quote.
ScanString(t, i) ==
    IF \E j \in (i + 1)..Len(t) : t[j] = Q
    THEN LET j == CHOOSE j \in (i + 1)..Len(t) :
                      t[j] = Q /\ \A k \in (i + 1)..(j - 1) : t[k] # Q
         IN Ok(Str(SubSeq(t, i + 1, j - 1)), j + 1)
    ELSE Fail("Unterminated string")

RECURSIVE ParseValue(_, _)
RECURSIVE ParseElems(_, _, _)
RECURSIVE ParseMembers(_, _, _)
ParseElems(t, i, acc) ==
    LET r == ParseValue(t, i)
    IN IF ~r.ok THEN r
       ELSE LET k == SkipWs(t, r.next)
                xs == Append(acc, r.val)
            IN IF k <= Len(t) /\ t[k] = "," THEN ParseElems(t, k + 1, xs)
               ELSE IF k <= Len(t) /\ t[k] = "]" THEN Ok(List(xs), k + 1)
               ELSE Fail("Expecting comma delimiter")
ParseMembers(t, i, d) ==
    LET j == SkipWs(t, i)
    IN IF ~(j <= Len(t) /\ t[j] = Q)
       THEN Fail("Expecting property name enclosed in double quotes")
       ELSE LET key == ScanString(t, j)
            IN IF ~key.ok THEN key
               ELSE IF Len(key.val.s) # 1
               THEN Fail("Expecting property name enclosed in double quotes")
               ELSE LET c == SkipWs(t, key.next)
                    IN IF ~(c <= Len(t) /\ t[c] = ":")
                       THEN Fail("Expecting colon delimiter")
                       ELSE LET r == ParseValue(t, c + 1)
                            IN IF ~r.ok THEN r
                               ELSE LET k == SkipWs(t, r.next)
                                        dd == DictSet(d, key.val.s[1], r.val)
                                    IN IF k <= Len(t) /\ t[k] = ","
                                       THEN ParseMembers(t, k + 1, dd)
                                       ELSE IF k <= Len(t) /\ t[k] = "}"
                                       THEN Ok(dd, k + 1)
                                       ELSE Fail("Expecting comma delimiter")
ParseValue(t, i) ==
    LET j == SkipWs(t, i)
    IN IF j > Len(t) THEN Fail("Expecting value")
       ELSE CASE t[j] = "null" -> Ok(Null, j + 1)
              [] t[j] = "0" -> Ok(Num(0), j + 1)
              [] t[j] = "1" -> Ok(Num(1), j + 1)
              [] t[j] = Q -> ScanString(t, j)
              [] t[j] = "[" ->
                    LET k == SkipWs(t, j + 1)
                    IN IF k <= Len(t) /\ t[k] = "]"
                       THEN Ok(List(<<>>), k + 1)
                       ELSE ParseElems(t, j + 1, <<>>)
              [] t[j] = "{" ->
                    LET k == SkipWs(t, j + 1)
                    IN IF k <= Len(t) /\ t[k] = "}"
                       THEN Ok(Dict(<<>>, <<>>), k + 1)
                       ELSE ParseMembers(t, j + 1, Dict(<<>>, <<>>))
              [] OTHER -> Fail("Expecting value")

json_loads(t) ==
    LET r == ParseValue(t, 1)
    IN IF ~r.ok THEN r
       ELSE IF SkipWs(t, r.next) <= Len(t) THEN Fail("Extra data")
       ELSE r

(***************************************************************************)
(* str.strip, str.startswith and str.replace on token sequences.           *)
(***************************************************************************)
RECURSIVE rstrip(_)
rstrip(t) ==
    IF t # <<>> /\ t[Len(t)] = WS THEN rstrip(SubSeq(t, 1, Len(t) - 1)) ELSE t

strip(t) == rstrip(SubSeq(t, SkipWs(t, 1), Len(t)))

startswith(t, p) == Len(t) >= Len(p) /\ SubSeq(t, 1, Len(p)) = p

\* t.replace(p, ""): every non-overlapping occurrence of p, left to right.
RECURSIVE remove_all(_, _)
remove_all(t, p) ==
    IF t = <<>> THEN <<>>
    ELSE IF startswith(t, p) THEN remove_all(SubSeq(t, Len(p) + 1, Len(t)), p)
    ELSE <<Head(t)>> \o remove_all(Tail(t), p)

(***************************************************************************)
(* Configuration.                                                          *)
(***************************************************************************)
models_to_try == <<"gemini-1.5-flash", "gemini-pro", "gemini-2.5-flash">>
MODEL_NAME == "gpt-3.5-turbo"
TIMEOUT == 60

Stages ==
    {"generate-story", "generate-questions", "chat-rules",
     "consolidate-rules", "generate-gherkin", "validate-story"}

(***************************************************************************)
(* Request bodies.                                                         *)
(***************************************************************************)
X == Str(<<"x">>)

WellFormedReq(s) ==
    CASE s = "generate-story" -> Dict(<<"idea">>, <<X>>)
      [] s = "generate-questions" -> Dict(<<"context">>, <<X>>)
      [] s = "chat-rules" -> Dict(<<"context", "message">>, <<X, X>>)
      [] s = "consolidate-rules" ->
            Dict(<<"context", "qaPairs">>,
                 <<X, List(<<Dict(<<"question", "answer">>, <<X, X>>)>>)>>)
      [] s = "generate-gherkin" ->
            Dict(<<"rules">>, <<List(<<Dict(<<"id", "text">>, <<X, X>>)>>)>>)
      [] s = "validate-story" ->
            Dict(<<"story", "rules", "scenarios">>,
                 <<X, List(<<Dict(<<"id", "text">>, <<X, X>>)>>),
                   List(<<Dict(<<"ruleId", "gherkinText">>, <<X, X>>)>>)>>)

\* A list element without one of its required keys.
BadElementReq(s) ==
    CASE s = "consolidate-rules" ->
            {Dict(<<"context", "qaPairs">>,
                  <<X, List(<<Dict(<<"question">>, <<X>>)>>)>>)}
      [] s = "generate-gherkin" ->
            {Dict(<<"rules">>, <<List(<<Dict(<<"id">>, <<X>>)>>)>>)}
      [] s = "validate-story" ->
            {Dict(<<"story", "rules", "scenarios">>,
                  <<X, List(<<Dict(<<"id", "text">>, <<X, X>>)>>),
                    List(<<Dict(<<"ruleId">>, <<X>>)>>)>>)}
      [] OTHER -> {}

Requests(s) ==
    {Null, List(<<>>), Dict(<<>>, <<>>), WellFormedReq(s)} \cup BadElementReq(s)

(***************************************************************************)
(* internal.py: the Pydantic request models.  FastAPI validates the body   *)
(* against the handler's model before the handler runs.                    *)
(***************************************************************************)
StrField(d, k) == HasKey(d, k) /\ IsStr(GetItem(d, k))
OptionalStrField(d, k) == HasKey(d, k) => GetItem(d, k).t \in {"str", "null"}

StoryRequest(d) ==
    /\ IsDict(d)
    /\ StrField(d, "idea")
    /\ OptionalStrField(d, "user")
    /\ OptionalStrField(d, "action")
    /\ OptionalStrField(d, "benefit")
QuestionRequest(d) == IsDict(d) /\ StrField(d, "context")
ChatRequest(d) == IsDict(d) /\ StrField(d, "context") /\ StrField(d, "message")
QAPair(d) == IsDict(d) /\ StrField(d, "question") /\ StrField(d, "answer")
ChatMessage(d) == IsDict(d) /\ StrField(d, "role") /\ StrField(d, "content")
\* List[QAPair], List[ChatMessage]
QAPairList(v) == IsList(v) /\ \A i \in 1..Len(v.items) : QAPair(v.items[i])
ChatMessageList(v) == IsList(v) /\ \A i \in 1..Len(v.items) : ChatMessage(v.items[i])
ConsolidateRequest(d) ==
    /\ IsDict(d)
    /\ StrField(d, "context")
    /\ HasKey(d, "qaPairs") /\ QAPairList(GetItem(d, "qaPairs"))
    /\ HasKey(d, "chatHistory") => ChatMessageList(GetItem(d, "chatHistory"))
Rule(d) == IsDict(d) /\ StrField(d, "id") /\ StrField(d, "text")
\* List[Rule]
RuleList(v) == IsList(v) /\ \A i \in 1..Len(v.items) : Rule(v.items[i])
GherkinRequest(d) ==
    IsDict(d) /\ HasKey(d, "rules") /\ RuleList(GetItem(d, "rules"))
Scenario(d) == IsDict(d) /\ StrField(d, "ruleId") /\ StrField(d, "gherkinText")
\* List[Scenario]
ScenarioList(v) == IsList(v) /\ \A i \in 1..Len(v.items) : Scenario(v.items[i])
ValidateRequest(d) ==
    /\ IsDict(d)
    /\ StrField(d, "story")
    /\ HasKey(d, "rules") /\ RuleList(GetItem(d, "rules"))
    /\ HasKey(d, "scenarios") /\ ScenarioList(GetItem(d, "scenarios"))

RequestModel(s, d) ==
    CASE s = "generate-story" -> StoryRequest(d)
      [] s = "generate-questions" -> QuestionRequest(d)
      [] s = "chat-rules" -> ChatRequest(d)
      [] s = "consolidate-rules" -> ConsolidateRequest(d)
      [] s = "generate-gherkin" -> GherkinRequest(d)
      [] s = "validate-story" -> ValidateRequest(d)

(***************************************************************************)
(* app.py: what a handler does with request.json before it calls the       *)
(* gateway.  The result is the exception it raises there, or NoException.  *)
(***************************************************************************)
NoException == "None"

\* data.get(k, default)
get(d, k, default) == IF HasKey(d, k) THEN GetItem(d, k) ELSE default

\* The elements a Python for loop draws from v.
Iter(v) ==
    CASE v.t = "list" -> v.items
      [] v.t = "str" -> [i \in 1..Len(v.s) |-> Str(<<v.s[i]>>)]
      [] v.t = "dict" -> [i \in 1..Len(v.keys) |-> Str(<<v.keys[i]>>)]
      [] OTHER -> <<>>

\* The exception of v[k1], v[k2] for every v in the loop over xs.
SubscriptAll(xs, k1, k2) ==
    IF xs.t \in {"null", "num"} THEN "TypeError"
    ELSE LET it == Iter(xs)
             bad == {i \in 1..Len(it) :
                        ~(IsDict(it[i]) /\ HasKey(it[i], k1) /\ HasKey(it[i], k2))}
         IN IF bad = {} THEN NoException
            ELSE LET i == CHOOSE i \in bad : \A j \in bad : i <= j
                 IN IF IsDict(it[i]) THEN "KeyError" ELSE "TypeError"

\* len(v)
LenError(v) == IF v.t \in {"null", "num"} THEN "TypeError" ELSE NoException

app_prelude(s, d) ==
    IF ~IsDict(d) THEN "AttributeError"
    ELSE CASE s = "consolidate-rules" ->
                LET qa == SubscriptAll(get(d, "qaPairs", List(<<>>)),
                                       "question", "answer")
                IN IF qa # NoException THEN qa
                   ELSE SubscriptAll(get(d, "chatHistory", List(<<>>)),
                                     "role", "content")
           [] s = "validate-story" ->
                IF LenError(get(d, "rules", List(<<>>))) # NoException
                THEN "TypeError"
                ELSE LenError(get(d, "scenarios", List(<<>>)))
           [] OTHER -> NoException

(***************************************************************************)
(* HTTP responses.                                                         *)
(***************************************************************************)
NoResponse == [status |-> 0, kind |-> "none"]
\* jsonify(v), status
Json(status, v) == [status |-> status, kind |-> "json", json |-> v]
\* An exception no handler catches: the framework's 500 page.
Unhandled(exc) == [status |-> 500, kind |-> "unhandled", exc |-> exc]
\* FastAPI's rendering of an HTTPException, and of a validation failure.
HTTPException(status_code, detail) ==
    [t |-> "HTTPException", status_code |-> status_code, detail |-> detail]
Raised(e) == Json(e.status_code, Dict(<<"detail">>, <<Str(<<e.detail>>)>>))
Unprocessable == Json(422, Dict(<<"detail">>, <<Str(<<"validation error">>)>>))

ErrorDict(msg) == Dict(<<"error">>, <<Str(<<msg>>)>>)

\* The stage's top-level key, for the stages that unwrap.
UnwrapKey(s) ==
    CASE s = "generate-questions" -> "questions"
      [] s = "consolidate-rules" -> "rules"
      [] s = "generate-gherkin" -> "scenarios"
      [] OTHER -> "None"

\* Python's `"error" in result`; "TypeError" where the operand has no `in`.
ContainsError(v) ==
    CASE v.t = "dict" -> HasKey(v, "error")
      [] v.t = "list" -> \E i \in 1..Len(v.items) : v.items[i] = Str(<<"error">>)
      [] v.t = "str" -> \E i \in 1..Len(v.s) : v.s[i] = "error"
      [] OTHER -> FALSE
ContainsRaises(v) == v.t \in {"null", "num"}

\* The three lines that end each handler of app.py.
app_respond(s, result) ==
    IF Truthy(result) /\ ContainsRaises(result) THEN Unhandled("TypeError")
    ELSE IF Truthy(result) /\ ContainsError(result) THEN Json(400, result)
    ELSE IF Truthy(result)
    THEN IF UnwrapKey(s) = "None" THEN Json(200, result)
         ELSE IF ~IsDict(result) THEN Unhandled("TypeError")
         ELSE IF ~HasKey(result, UnwrapKey(s)) THEN Unhandled("KeyError")
         ELSE Json(200, GetItem(result, UnwrapKey(s)))
    ELSE Json(500, ErrorDict("Falha na IA"))

\* Every handler of internal.py returns the gateway's value as it is.
internal_respond(s, result) == Json(200, result)

(***************************************************************************)
(* What the upstream can answer to one completion request.                 *)
(***************************************************************************)
Words == {"x", "error", FENCE}
Strs == {Str(w) : w \in SeqsUpTo(Words, MaxStrLen)}
Items == {Num(1), Str(<<"error">>)}
Lists == {List(xs) : xs \in SeqsUpTo(Items, MaxListLen)}
Keys == {"error", "questions", "rules", "scenarios", "x"}
Values ==
    {Null, Num(0), Num(1)} \cup Strs \cup Lists \cup {Dict(<<>>, <<>>)}
    \cup {Dict(<<k>>, <<v>>) : k \in Keys, v \in Strs \cup Lists}

\* A JSON document J inside a Markdown fence, with whitespace around it.
FenceKinds == {"json", "bare", "padded"}
Wrap(kind, J) ==
    CASE kind = "json" -> <<FENCE, "json", WS>> \o J \o <<WS, FENCE>>
      [] kind = "bare" -> <<FENCE, WS>> \o J \o <<WS, FENCE>>
      [] kind = "padded" -> <<WS, FENCE, "json", WS>> \o J \o <<WS, FENCE, WS>>
FencedValues == {Dict(<<"x">>, <<Str(<<"x">>)>>), Dict(<<"x">>, <<Str(<<FENCE>>)>>)}

\* Prose instead of JSON, an empty completion, a truncated document.
Garbage == {<<"x">>, <<>>, <<"{", Q, "x", Q>>}

Texts ==
    {json_dumps(v) : v \in Values}
    \cup {Wrap(k, json_dumps(v)) : k \in FenceKinds, v \in FencedValues}
    \cup Garbage

Raise(exc, msg) == [kind |-> "raise", exc |-> exc, msg |-> msg]
TextOut(t) == [kind |-> "text", text |-> t]

\* google.generativeai: generate_content raises, or response.text is t.
GeminiOutcomes ==
    {Raise("NotFound", "404 model not found"),
     Raise("ResourceExhausted", "429 quota exceeded")}
    \cup {TextOut(t) : t \in Texts}

\* requests: post or raise_for_status raises a RequestException; or the
\* envelope has no choices; or choices[0].message.content is t.
RequestException == {"Timeout", "ConnectionError", "HTTPError"}
InternalOutcomes ==
    {Raise(e, e) : e \in RequestException}
    \cup {[kind |-> "nochoices"]}
    \cup {TextOut(t) : t \in Texts}

(***************************************************************************)
(* State.                                                                  *)
(***************************************************************************)
VARIABLES
    impl,            \* the server that runs: "app.py" or "internal.py"
    GEMINI_API_KEY,  \* app.py: whether the key is set
    API_URL,         \* internal.py: whether url_interna is set
    API_KEY,         \* internal.py: whether key_interna is set
    pc,              \* "idle", "await" (a completion request in flight), "done"
    stage,           \* the endpoint of the request
    data,            \* the request body
    idx,             \* position of the loop over the candidates
    calls,           \* the models requested over the network, in order
    replies,         \* what the upstream answered, in order
    inflight,        \* completion requests in flight
    reqTimeout,      \* <<seconds>> of the request in flight, <<>> if none given
    last_error,      \* call_gemini's last_error
    ret,             \* the statement that ended the gateway
    result,          \* the gateway's value (or the HTTPException it raised)
    response         \* the HTTP response

vars ==
    <<impl, GEMINI_API_KEY, API_URL, API_KEY, pc, stage, data, idx, calls,
      replies, inflight, reqTimeout, last_error, ret, result, response>>

config == <<impl, GEMINI_API_KEY, API_URL, API_KEY>>

None == [t |-> "None"]

Init ==
    /\ impl \in {"app.py", "internal.py"}
    /\ GEMINI_API_KEY \in (IF impl = "app.py" THEN BOOLEAN ELSE {FALSE})
    /\ API_URL \in (IF impl = "internal.py" THEN BOOLEAN ELSE {FALSE})
    /\ API_KEY \in (IF impl = "internal.py" THEN BOOLEAN ELSE {FALSE})
    /\ pc = "idle"
    /\ stage = "None"
    /\ data = Null
    /\ idx = 0
    /\ calls = <<>>
    /\ replies = <<>>
    /\ inflight = 0
    /\ reqTimeout = <<>>
    /\ last_error = None
    /\ ret = "none"
    /\ result = None
    /\ response = NoResponse

\* The handler has returned (or raised): the response goes out.
Finish(r, res, resp) ==
    /\ ret' = r
    /\ result' = res
    /\ response' = resp
    /\ pc' = "done"
    /\ inflight' = 0
    /\ reqTimeout' = <<>>

\* One completion request leaves the process.
Send(i, model, timeout, pending) ==
    /\ idx' = i
    /\ calls' = Append(calls, model)
    /\ inflight' = pending + 1
    /\ reqTimeout' = timeout
    /\ pc' = "await"
    /\ UNCHANGED <<ret, result, response>>

(***************************************************************************)
(* app.py                                                                  *)
(***************************************************************************)
\* A loop that steps over a candidate after a failure.
next_index_skip(i) == i + 2

\* The loop of call_gemini moves to the next candidate.
next_index(i) == i + 1

\* A handler that keeps the first error it saw.
record_error_first(last, e) == IF last = [t |-> "None"] THEN e ELSE last

\* except Exception as e: last_error = e
record_error(last, e) == e

\* The try block of call_gemini for one candidate.
gemini_attempt(out) ==
    IF out.kind = "raise" THEN [ok |-> FALSE, exc |-> out.exc, msg |-> out.msg]
    ELSE LET r == json_loads(out.text)
         IN IF r.ok THEN [ok |-> TRUE, val |-> r.val]
            ELSE [ok |-> FALSE, exc |-> "JSONDecodeError", msg |-> r.msg]

\* A handler of app.py from the request to the first completion request.
AppHandler(s) ==
    /\ impl = "app.py"
    /\ pc = "idle"
    /\ \E d \in Requests(s) :
        /\ stage' = s
        /\ data' = d
        /\ UNCHANGED <<config, replies, last_error>>
        /\ IF app_prelude(s, d) # NoException
           THEN /\ Finish("none", None, Unhandled(app_prelude(s, d)))
                /\ UNCHANGED <<idx, calls>>
           ELSE IF ~GEMINI_API_KEY
           THEN LET res == ErrorDict("Chave de API nao configurada.")
                IN /\ Finish("config", res, app_respond(s, res))
                   /\ UNCHANGED <<idx, calls>>
           ELSE Send(1, models_to_try[1], <<>>, inflight)

app_generate_story == AppHandler("generate-story")
app_generate_questions == AppHandler("generate-questions")
app_chat_rules == AppHandler("chat-rules")
app_consolidate_rules == AppHandler("consolidate-rules")
app_generate_gherkin == AppHandler("generate-gherkin")
app_validate_story == AppHandler("validate-story")

\* call_gemini from the upstream's answer to the next completion request,
\* or through the end of the handler.
call_gemini ==
    /\ impl = "app.py"
    /\ pc = "await"
    /\ \E out \in GeminiOutcomes :
        LET att == gemini_attempt(out)
            err == record_error(last_error, [exc |-> att.exc, msg |-> att.msg])
            i == next_index(idx)
        IN /\ replies' = Append(replies, out)
           /\ UNCHANGED <<config, stage, data>>
           /\ IF att.ok
              THEN /\ Finish("success", att.val, app_respond(stage, att.val))
                   /\ UNCHANGED <<idx, calls, last_error>>
              ELSE /\ last_error' = err
                   /\ IF i <= Len(models_to_try)
                      THEN Send(i, models_to_try[i], <<>>, inflight - 1)
                      ELSE LET res == ErrorDict(err.msg)
                           IN /\ Finish("exhausted", res, app_respond(stage, res))
                              /\ UNCHANGED <<idx, calls>>

(***************************************************************************)
(* internal.py                                                             *)
(***************************************************************************)
\* Limpeza de Markdown
clean_markdown(content) ==
    IF startswith(strip(content), <<FENCE, "json">>)
    THEN remove_all(remove_all(content, <<FENCE, "json">>), <<FENCE>>)
    ELSE IF startswith(strip(content), <<FENCE>>)
    THEN remove_all(content, <<FENCE>>)
    ELSE content

\* The try block of call_internal_gpt once the upstream has answered:
\* the parsed value, or the HTTPException of the except clause that runs.
internal_attempt(out) ==
    CASE out.kind = "raise" ->
            [ok |-> FALSE, ret |-> "connection",
             e |-> HTTPException(502, "Erro de comunicacao com a API interna.")]
      [] out.kind = "nochoices" ->
            [ok |-> FALSE, ret |-> "generic",
             e |-> HTTPException(500, "list index out of range")]
      [] out.kind = "text" ->
            LET r == json_loads(strip(clean_markdown(out.text)))
            IN IF r.ok THEN [ok |-> TRUE, val |-> r.val]
               ELSE [ok |-> FALSE, ret |-> "parse",
                     e |-> HTTPException(500, "A IA nao retornou um JSON valido.")]

\* A handler of internal.py from the request to the completion request.
\* requests.post(None, ...) raises MissingSchema, a RequestException,
\* before anything is sent.
InternalHandler(s) ==
    /\ impl = "internal.py"
    /\ pc = "idle"
    /\ \E d \in Requests(s) :
        /\ stage' = s
        /\ data' = d
        /\ UNCHANGED <<config, replies, last_error>>
        /\ IF ~RequestModel(s, d)
           THEN /\ Finish("none", None, Unprocessable)
                /\ UNCHANGED <<idx, calls>>
           ELSE IF ~API_KEY
           THEN LET e == HTTPException(500, "Chave de API interna nao configurada.")
                IN /\ Finish("config", e, Raised(e))
                   /\ UNCHANGED <<idx, calls>>
           ELSE IF ~API_URL
           THEN LET e == HTTPException(502, "Erro de comunicacao com a API interna.")
                IN /\ Finish("connection", e, Raised(e))
                   /\ UNCHANGED <<idx, calls>>
           ELSE Send(1, MODEL_NAME, <<TIMEOUT>>, inflight)

internal_generate_story == InternalHandler("generate-story")
internal_generate_questions == InternalHandler("generate-questions")
internal_chat_rules == InternalHandler("chat-rules")
internal_consolidate_rules == InternalHandler("consolidate-rules")
internal_generate_gherkin == InternalHandler("generate-gherkin")
internal_validate_story == InternalHandler("validate-story")

\* call_internal_gpt from the upstream's answer through the end of the
\* handler.
call_internal_gpt ==
    /\ impl = "internal.py"
    /\ pc = "await"
    /\ \E out \in InternalOutcomes :
        LET att == internal_attempt(out)
        IN /\ replies' = Append(replies, out)
           /\ UNCHANGED <<config, stage, data, idx, calls, last_error>>
           /\ IF att.ok
              THEN Finish("success", att.val, internal_respond(stage, att.val))
              ELSE Finish(att.ret, att.e, Raised(att.e))

Next ==
    \/ app_generate_story
    \/ app_generate_questions
    \/ app_chat_rules
    \/ app_consolidate_rules
    \/ app_generate_gherkin
    \/ app_validate_story
    \/ call_gemini
    \/ internal_generate_story
    \/ internal_generate_questions
    \/ internal_chat_rules
    \/ internal_consolidate_rules
    \/ internal_generate_gherkin
    \/ internal_validate_story
    \/ call_internal_gpt

Spec == Init /\ [][Next]_vars

(***************************************************************************)
(* Properties.                                                             *)
(***************************************************************************)
\* The ordered candidate list of the gateway that runs.
Candidates == IF impl = "app.py" THEN models_to_try ELSE <<MODEL_NAME>>

\* A candidate's answer is valid JSON; or it failed: a transport error, an
\* unusable envelope, or text that is not JSON.
ValidJson(out) == out.kind = "text" /\ json_loads(out.text).ok
Failed(out) == ~ValidJson(out)

\* The error a failed answer stands for.
ErrorExc(out) == IF out.kind = "raise" THEN out.exc ELSE "JSONDecodeError"
ErrorMsg(out) == IF out.kind = "raise" THEN out.msg ELSE json_loads(out.text).msg

GatewayReturned == pc = "done" /\ ret # "none"
GatewayFailed == GatewayReturned /\ ret # "success"

ConfigMissing ==
    IF impl = "app.py" THEN ~GEMINI_API_KEY ELSE ~API_KEY \/ ~API_URL

IsErrorBody(resp) ==
    /\ resp.kind = "json"
    /\ IsDict(resp.json)
    /\ resp.json.keys = <<"error">>
    /\ IsStr(resp.json.vals[1])

\* C1: the candidates are requested in list order, none skipped or repeated;
\* and when the first n-1 answers failed and the n-th is valid JSON, the
\* gateway has made exactly n requests, has returned, and its value is the
\* JSON parsed from the n-th answer.
C1_FallbackStopsAtFirstSuccess ==
    /\ calls = SubSeq(Candidates, 1, Len(calls))
    /\ \A n \in 1..Len(replies) :
        ((\A i \in 1..(n - 1) : Failed(replies[i])) /\ ValidJson(replies[n]))
        => /\ Len(replies) = n
           /\ Len(calls) = n
           /\ pc = "done"
           /\ ret = "success"
           /\ result = json_loads(replies[n].text).val

\* Two candidates failed and the third answered valid JSON.
C1_Witness ==
    /\ impl = "app.py"
    /\ Len(replies) = 3
    /\ Failed(replies[1])
    /\ Failed(replies[2])
    /\ ValidJson(replies[3])
    /\ calls = models_to_try
    /\ ret = "success"

\* C2: with the key or the endpoint missing, the gateway ends with its
\* configuration failure and no completion request has been made.
C2_ConfigErrorWithoutCalls ==
    (ConfigMissing /\ GatewayReturned) => (ret = "config" /\ calls = <<>>)

\* C3, for the parsed values that are JSON objects: once the gateway has
\* returned, the status is 200 exactly when it returned a parsed value.
C3_OkIffSuccess ==
    (GatewayReturned /\ (ret = "success" => IsDict(result)))
    => (response.status = 200 <=> ret = "success")

\* The status the failure kinds map to: configuration 500, transport 502,
\* an unclassified error 500, text that is not JSON 400.
ExpectedStatus ==
    IF replies = <<>> THEN 500
    ELSE LET out == replies[Len(replies)]
         IN CASE out.kind = "raise" -> 502
              [] out.kind = "nochoices" -> 500
              [] out.kind = "text" -> 400

\* C4: a gateway failure is answered with the status of its kind and the
\* body {"error": detail}.
C4_StatusByFailureKind ==
    GatewayFailed => (response.status = ExpectedStatus /\ IsErrorBody(response))

\* C5: when every candidate failed, the gateway's failure is the error of
\* the last answer, whatever the earlier errors were.
C5_LastErrorWins ==
    /\ (/\ impl = "app.py"
        /\ Len(replies) = Len(Candidates)
        /\ \A i \in 1..Len(replies) : Failed(replies[i]))
       => GatewayFailed
    /\ (GatewayFailed /\ replies # <<>>)
       => LET last == replies[Len(replies)]
          IN /\ \A i \in 1..Len(replies) : Failed(replies[i])
             /\ Len(replies) = Len(Candidates)
             /\ IF impl = "app.py"
                THEN /\ ret = "exhausted"
                     /\ last_error = [exc |-> ErrorExc(last), msg |-> ErrorMsg(last)]
                     /\ result = ErrorDict(ErrorMsg(last))
                ELSE ret = CASE last.kind = "raise" -> "connection"
                             [] last.kind = "nochoices" -> "generic"
                             [] last.kind = "text" -> "parse"

\* Three candidates failed, the last one with an error unlike the others.
C5_Witness ==
    /\ pc = "done"
    /\ ret = "exhausted"
    /\ Len(replies) = 3
    /\ ErrorMsg(replies[1]) # ErrorMsg(replies[3])
    /\ ErrorMsg(replies[2]) # ErrorMsg(replies[3])
    /\ result = ErrorDict(ErrorMsg(replies[3]))

\* C6: in the three unwrapping stages, a parsed non-empty JSON object
\* without the stage's key is answered 400 with an {"error": ...} body.
C6_MissingKeyIsParseError ==
    (/\ GatewayReturned
     /\ ret = "success"
     /\ UnwrapKey(stage) # "None"
     /\ IsDict(result)
     /\ result.keys # <<>>
     /\ ~HasKey(result, UnwrapKey(stage)))
    => (response.status = 400 /\ IsErrorBody(response))

\* C7: in the three unwrapping stages, a parsed value {key: seq} is answered
\* 200 with the bare sequence seq.
C7_UnwrapsToBareSequence ==
    (/\ GatewayReturned
     /\ ret = "success"
     /\ UnwrapKey(stage) # "None"
     /\ IsDict(result)
     /\ result.keys = <<UnwrapKey(stage)>>
     /\ IsList(result.vals[1]))
    => response = Json(200, result.vals[1])

\* C8, on the gateway that strips fences (call_internal_gpt): an answer that
\* wraps the document J in a fence is parsed to the value of J.
C8_FencedParsesAsUnfenced ==
    \A i \in 1..Len(replies), k \in FenceKinds, v \in FencedValues :
        (impl = "internal.py" /\ replies[i] = TextOut(Wrap(k, json_dumps(v))))
        => (ret = "success" /\ result = json_loads(json_dumps(v)).val)

\* The request shape of a stage: the fields of its request model, with the
\* draft-story fields all optional.
WellFormed(s, d) ==
    IF s = "generate-story"
    THEN /\ IsDict(d)
         /\ \A k \in {"idea", "user", "action", "benefit"} : OptionalStrField(d, k)
    ELSE RequestModel(s, d)

\* C9: no completion request is made for a malformed request: a request
\* that has reached the gateway is well-formed.
C9_MalformedRejectedBeforeCall ==
    calls # <<>> => WellFormed(stage, data)

\* C10: at most len(candidates) completion requests, never two in flight,
\* and every request in flight carries a timeout.
C10_BoundedSequentialCalls ==
    /\ Len(calls) <= Len(Candidates)
    /\ inflight <= 1
    /\ pc = "await" => reqTimeout # <<>>

TypeOK ==
    /\ pc \in {"idle", "await", "done"}
    /\ stage \in Stages \cup {"None"}
    /\ inflight \in {0, 1}
====
